---- MODULE Spec2Model ----
(***************************************************************************)
(* Model of the client of alperensayar/ai_code_agent: the polling pages    *)
(* (AgentWorkflow, CodeMap), the Dashboard loader, the create forms        *)
(* (CodeAnalysis, RequirementAnalysis) and CodeMap's buildTreeData.  One   *)
(* page is mounted at a time (App.js Routes); every loadData call is a     *)
(* "round" of HTTP requests joined by Promise.all.                         *)
(***************************************************************************)
EXTENDS Integers, Sequences, FiniteSets, TLC

\* ---- bounds of the model ----
MaxId == 2          \* ids of backend resources: 1..MaxId
MaxRounds == 2      \* loadData / loadProjects calls in one behaviour
MaxMounts == 2      \* page mounts in one behaviour
MaxEffects == 2     \* runs of a polling useEffect (mount or parameter change)
MaxTicks == 1       \* interval callbacks fired per timer handle
MaxPathLen == 3     \* pieces (characters) in a file_path
MaxRecords == 2     \* records in the codeMaps array given to buildTreeData
MaxRenders == 2     \* evaluations of buildTreeData on one codeMaps array
MaxRenderPathLen == 1   \* characters in a file_path of a re-rendered array
MaxRenderRecords == 2   \* records in a re-rendered codeMaps array
MaxDepth == 11      \* segments in a file_path of a deeply nested array

Ids == 1 .. MaxId

VARIABLES
  page,         \* the page rendered by <Routes>: "none" or a page name
  params,       \* useParams(): requirementId / projectId of the route (0: none)
  mounts,       \* number of page instances mounted so far; the live one is the last
  requirement,  \* AgentWorkflow state
  tasks,        \* AgentWorkflow state
  project,      \* CodeMap state
  codeMaps,     \* CodeMap state
  summary,      \* CodeMap state
  projects,     \* Dashboard state
  stats,        \* Dashboard state
  loading,      \* loading flag of the mounted page
  interval,     \* handle returned by setInterval in the live effect (0: none)
  timers,       \* handles of the interval timers that are still set
  effects,      \* closures of the effect runs, indexed by handle
  rounds,       \* loadData rounds issued so far, in issue order
  selectedFile, \* CodeMap state: the record shown in the detail pane
  requirements, \* RequirementAnalysis state: project and requirements
  submitting,   \* RequirementAnalysis state: a create request is in flight
  creates,      \* create requests issued by the forms, in issue order
  timeouts,     \* navigation timers scheduled by handleSubmit, in schedule order
  input,        \* buildTreeData: the codeMaps array it is evaluated on
  treeData,     \* buildTreeData: the forest it returned
  built,        \* buildTreeData has been evaluated on input
  thrown,       \* the last evaluation of buildTreeData threw a TypeError
  renders       \* number of evaluations of buildTreeData on input

pollVars == <<page, params, mounts, requirement, tasks, project, codeMaps,
              summary, projects, stats, loading, interval, timers, effects,
              rounds>>
formVars == <<requirements, submitting, creates, timeouts>>
treeVars == <<input, treeData, built, thrown, renders>>
vars == <<page, params, mounts, requirement, tasks, project, codeMaps,
          summary, projects, stats, loading, interval, timers, effects,
          rounds, selectedFile, requirements, submitting, creates, timeouts,
          input, treeData, built, thrown, renders>>

\* ---- values ----
\* useState(null) / useState([]): nothing committed yet
NoData == [round |-> 0, id |-> 0, status |-> "none"]
NoProjects == [round |-> 0, data |-> <<>>]
NoStats == [round |-> 0, total |-> 0, completed |-> 0, analyzing |-> 0, pending |-> 0]

\* status values of a project and of a requirement: the running one and the
\* terminal ones
ProjectStatuses == {"analyzing", "completed", "failed"}
RequirementStatuses == {"processing", "completed", "failed"}
Terminal == {"completed", "failed"}

\* what the first response of a round (getById, getAll) can carry: nothing
\* when that request failed
Carried(values, outs) == IF outs[1] = "fail" THEN {"none"} ELSE values

\* the response of projectService.getAll(): one project per id, which may
\* also be waiting for its analysis
ProjectLists == [Ids -> ProjectStatuses \cup {"pending"}]

\* number of requests joined by Promise.all in one round of a page
Requests(view) ==
  IF view \in {"AgentWorkflow", "RequirementAnalysis"} THEN 2
  ELSE IF view = "CodeMap" THEN 3 ELSE 1

\* the outcomes the requests of one round can have, one per request
Outcomes(view) == [1 .. Requests(view) -> {"ok", "fail"}]

\* await Promise.all([...]): throws if any request failed, otherwise yields
\* all the responses
PromiseAll(outs) ==
  IF \E k \in DOMAIN outs : outs[k] = "fail" THEN "rejected" ELSE "fulfilled"

\* a set-state call acts only on the component instance that is still mounted
Alive(rd) == page = rd.view /\ mounts = rd.inst

\* the async call: issues the requests of one round
loadData(rs, view, inst, id, origin, h) ==
  Append(rs, [view |-> view, inst |-> inst, id |-> id, origin |-> origin,
              eff |-> h, state |-> "pending"])

setInterval(ts, h) == ts \cup {h}
\* faulty variant: the cleanup leaves the timer set
clearIntervalKept(ts, h) == ts
clearInterval(ts, h) == ts \ {h}

\* what the callbacks created by one effect run close over: the route
\* parameter and the project state of the render the effect belongs to
Closure(view, id, proj) ==
  [view |-> view, id |-> id, projectStatus |-> proj.status, fired |-> 0]

\* the condition the CodeMap interval callback tests before loadData()
Gate(status) == status = "analyzing"

\* Dashboard: the single request of loadProjects
loadProjects(rs, inst) == loadData(rs, "Dashboard", inst, 0, "initial", 0)

\* projectsData.filter(p => p.status === s).length
Count(list, s) == Cardinality({i \in DOMAIN list : list[i] = s})

statsData(r, list) ==
  [round |-> r, total |-> Len(list), completed |-> Count(list, "completed"),
   analyzing |-> Count(list, "analyzing"), pending |-> Count(list, "pending")]

Init ==
  /\ page = "none" /\ params = 0 /\ mounts = 0
  /\ requirement = NoData /\ tasks = NoData
  /\ project = NoData /\ codeMaps = NoData /\ summary = NoData
  /\ projects = NoProjects /\ stats = NoStats
  /\ loading = FALSE
  /\ interval = 0 /\ timers = {} /\ effects = <<>> /\ rounds = <<>>
  /\ selectedFile = NoData
  /\ requirements = NoData
  /\ submitting = FALSE /\ creates = <<>> /\ timeouts = <<>>
  /\ input = <<>> /\ treeData = <<>> /\ built = FALSE
  /\ thrown = FALSE /\ renders = 0

\* ---- AgentWorkflow ----
\* faulty variant: the effect only sets the timer and waits for its first tick
AgentWorkflowMountDeferred(id) ==
  /\ page = "none" /\ mounts < MaxMounts
  /\ Len(rounds) < MaxRounds /\ Len(effects) < MaxEffects
  /\ page' = "AgentWorkflow" /\ params' = id /\ mounts' = mounts + 1
  /\ requirement' = NoData /\ tasks' = NoData /\ loading' = TRUE
  /\ interval' = Len(effects) + 1
  /\ effects' = Append(effects, Closure("AgentWorkflow", id, NoData))
  /\ timers' = setInterval(timers, interval')
  /\ UNCHANGED <<rounds, project, codeMaps, summary, projects, stats,
                 treeVars,
                 formVars, selectedFile>>

AgentWorkflowMount(id) ==
  /\ page = "none" /\ mounts < MaxMounts
  /\ Len(rounds) < MaxRounds /\ Len(effects) < MaxEffects
  /\ page' = "AgentWorkflow" /\ params' = id /\ mounts' = mounts + 1
  /\ requirement' = NoData /\ tasks' = NoData /\ loading' = TRUE
  /\ interval' = Len(effects) + 1
  /\ effects' = Append(effects, Closure("AgentWorkflow", id, NoData))
  /\ rounds' = loadData(rounds, "AgentWorkflow", mounts + 1, id, "initial", interval')
  /\ timers' = setInterval(timers, interval')
  /\ UNCHANGED <<project, codeMaps, summary, projects, stats, treeVars,
                 formVars, selectedFile>>

AgentWorkflowParamChange(id) ==
  /\ page = "AgentWorkflow" /\ id # params
  /\ Len(rounds) < MaxRounds /\ Len(effects) < MaxEffects
  /\ params' = id
  /\ interval' = Len(effects) + 1
  /\ effects' = Append(effects, Closure("AgentWorkflow", id, NoData))
  /\ rounds' = loadData(rounds, "AgentWorkflow", mounts, id, "initial", interval')
  /\ timers' = setInterval(clearInterval(timers, interval), interval')
  /\ UNCHANGED <<page, mounts, requirement, tasks, loading, project, codeMaps,
                 summary, projects, stats, treeVars,
                 formVars, selectedFile>>

AgentWorkflowTick(h) ==
  /\ h \in timers /\ effects[h].view = "AgentWorkflow"
  /\ effects[h].fired < MaxTicks /\ Len(rounds) < MaxRounds
  /\ effects' = [effects EXCEPT ![h].fired = @ + 1]
  /\ rounds' = loadData(rounds, "AgentWorkflow", mounts, effects[h].id, "tick", h)
  /\ UNCHANGED <<page, params, mounts, requirement, tasks, loading, project,
                 codeMaps, summary, projects, stats, interval, timers,
                 treeVars,
                 formVars, selectedFile>>

\* faulty variant: the catch block stops the timer
AgentWorkflowSettleStopsOnError(r, outs, st) ==
  /\ r \in DOMAIN rounds /\ rounds[r].view = "AgentWorkflow"
  /\ rounds[r].state = "pending"
  /\ LET rd == rounds[r]
     IN /\ rounds' = [rounds EXCEPT ![r].state = PromiseAll(outs)]
        /\ IF PromiseAll(outs) = "fulfilled" /\ Alive(rd)
             THEN /\ requirement' = [round |-> r, id |-> rd.id, status |-> st]
                  /\ tasks' = [round |-> r, id |-> rd.id, status |-> "none"]
             ELSE UNCHANGED <<requirement, tasks>>
        /\ timers' = IF PromiseAll(outs) = "rejected" /\ Alive(rd)
                       THEN clearInterval(timers, interval) ELSE timers
        /\ loading' = IF Alive(rd) THEN FALSE ELSE loading
  /\ UNCHANGED <<page, params, mounts, project, codeMaps, summary, projects,
                 stats, interval, effects, treeVars,
                 formVars, selectedFile>>

AgentWorkflowSettle(r, outs, st) ==
  /\ r \in DOMAIN rounds /\ rounds[r].view = "AgentWorkflow"
  /\ rounds[r].state = "pending"
  /\ LET rd == rounds[r]
     IN /\ rounds' = [rounds EXCEPT ![r].state = PromiseAll(outs)]
        /\ IF PromiseAll(outs) = "fulfilled" /\ Alive(rd)
             THEN /\ requirement' = [round |-> r, id |-> rd.id, status |-> st]
                  /\ tasks' = [round |-> r, id |-> rd.id, status |-> "none"]
             ELSE UNCHANGED <<requirement, tasks>>
        /\ loading' = IF Alive(rd) THEN FALSE ELSE loading
  /\ UNCHANGED <<page, params, mounts, project, codeMaps, summary, projects,
                 stats, interval, timers, effects, treeVars,
                 formVars, selectedFile>>

\* ---- CodeMap ----
CodeMapMount(id) ==
  /\ page = "none" /\ mounts < MaxMounts
  /\ Len(rounds) < MaxRounds /\ Len(effects) < MaxEffects
  /\ page' = "CodeMap" /\ params' = id /\ mounts' = mounts + 1
  /\ project' = NoData /\ codeMaps' = NoData /\ summary' = NoData
  /\ loading' = TRUE
  /\ interval' = Len(effects) + 1
  /\ effects' = Append(effects, Closure("CodeMap", id, NoData))
  /\ rounds' = loadData(rounds, "CodeMap", mounts + 1, id, "initial", interval')
  /\ timers' = setInterval(timers, interval')
  /\ selectedFile' = NoData
  /\ UNCHANGED <<requirement, tasks, projects, stats, treeVars, formVars>>

CodeMapParamChange(id) ==
  /\ page = "CodeMap" /\ id # params
  /\ Len(rounds) < MaxRounds /\ Len(effects) < MaxEffects
  /\ params' = id
  /\ loading' = TRUE
  /\ interval' = Len(effects) + 1
  /\ effects' = Append(effects, Closure("CodeMap", id, project))
  /\ rounds' = loadData(rounds, "CodeMap", mounts, id, "initial", interval')
  /\ timers' = setInterval(clearInterval(timers, interval), interval')
  /\ UNCHANGED <<page, mounts, requirement, tasks, project, codeMaps, summary,
                 projects, stats, treeVars,
                 formVars, selectedFile>>

CodeMapTick(h) ==
  /\ h \in timers /\ effects[h].view = "CodeMap"
  /\ effects[h].fired < MaxTicks
  /\ Gate(effects[h].projectStatus) => Len(rounds) < MaxRounds
  /\ effects' = [effects EXCEPT ![h].fired = @ + 1]
  /\ IF Gate(effects[h].projectStatus)
       THEN /\ rounds' = loadData(rounds, "CodeMap", mounts, effects[h].id, "tick", h)
            /\ loading' = TRUE
       ELSE UNCHANGED <<rounds, loading>>
  /\ UNCHANGED <<page, params, mounts, requirement, tasks, project, codeMaps,
                 summary, projects, stats, interval, timers, treeVars,
                 formVars, selectedFile>>

\* the "Yenile" button, rendered unless the page shows the initial spinner
CodeMapRefresh ==
  /\ page = "CodeMap" /\ ~(loading /\ project = NoData)
  /\ Len(rounds) < MaxRounds
  /\ rounds' = loadData(rounds, "CodeMap", mounts, params, "manual", interval)
  /\ loading' = TRUE
  /\ UNCHANGED <<page, params, mounts, requirement, tasks, project, codeMaps,
                 summary, projects, stats, interval, timers, effects,
                 treeVars,
                 formVars, selectedFile>>

\* faulty variant: each response is committed on its own instead of after Promise.all
CodeMapSettleSeparately(r, outs, st) ==
  /\ r \in DOMAIN rounds /\ rounds[r].view = "CodeMap"
  /\ rounds[r].state = "pending"
  /\ LET rd == rounds[r]
     IN /\ rounds' = [rounds EXCEPT ![r].state = PromiseAll(outs)]
        /\ project' = IF outs[1] = "ok" /\ Alive(rd)
                        THEN [round |-> r, id |-> rd.id, status |-> st] ELSE project
        /\ codeMaps' = IF outs[2] = "ok" /\ Alive(rd)
                         THEN [round |-> r, id |-> rd.id, status |-> "none"] ELSE codeMaps
        /\ summary' = IF outs[3] = "ok" /\ Alive(rd)
                        THEN [round |-> r, id |-> rd.id, status |-> "none"] ELSE summary
        /\ loading' = IF Alive(rd) THEN FALSE ELSE loading
  /\ UNCHANGED <<page, params, mounts, requirement, tasks, projects, stats,
                 interval, timers, effects, treeVars,
                 formVars, selectedFile>>

CodeMapSettle(r, outs, st) ==
  /\ r \in DOMAIN rounds /\ rounds[r].view = "CodeMap"
  /\ rounds[r].state = "pending"
  /\ LET rd == rounds[r]
     IN /\ rounds' = [rounds EXCEPT ![r].state = PromiseAll(outs)]
        /\ IF PromiseAll(outs) = "fulfilled" /\ Alive(rd)
             THEN /\ project' = [round |-> r, id |-> rd.id, status |-> st]
                  /\ codeMaps' = [round |-> r, id |-> rd.id, status |-> "none"]
                  /\ summary' = [round |-> r, id |-> rd.id, status |-> "none"]
             ELSE UNCHANGED <<project, codeMaps, summary>>
        /\ loading' = IF Alive(rd) THEN FALSE ELSE loading
  /\ UNCHANGED <<page, params, mounts, requirement, tasks, projects, stats,
                 interval, timers, effects, treeVars,
                 formVars, selectedFile>>

\* ---- Dashboard ----
DashboardMount ==
  /\ page = "none" /\ mounts < MaxMounts /\ Len(rounds) < MaxRounds
  /\ page' = "Dashboard" /\ params' = 0 /\ mounts' = mounts + 1
  /\ projects' = NoProjects /\ stats' = NoStats
  /\ loading' = TRUE
  /\ rounds' = loadProjects(rounds, mounts + 1)
  /\ UNCHANGED <<requirement, tasks, project, codeMaps, summary, interval,
                 timers, effects, treeVars,
                 formVars, selectedFile>>

DashboardSettle(r, outs, list) ==
  /\ r \in DOMAIN rounds /\ rounds[r].view = "Dashboard"
  /\ rounds[r].state = "pending"
  /\ LET rd == rounds[r]
     IN /\ rounds' = [rounds EXCEPT ![r].state = PromiseAll(outs)]
        /\ IF PromiseAll(outs) = "fulfilled" /\ Alive(rd)
             THEN /\ projects' = [round |-> r, data |-> list]
                  /\ stats' = statsData(r, list)
             ELSE UNCHANGED <<projects, stats>>
        /\ loading' = IF Alive(rd) THEN FALSE ELSE loading
  /\ UNCHANGED <<page, params, mounts, requirement, tasks, project, codeMaps,
                 summary, interval, timers, effects, treeVars,
                 formVars, selectedFile>>

\* ---- CodeMap: selecting a file of the tree ----
\* onSelect of a file node: the tree is built from the codeMaps of the
\* current render, so info.node.data is a record of the committed snapshot
onSelect ==
  /\ page = "CodeMap" /\ ~(loading /\ project = NoData)
  /\ codeMaps # NoData
  /\ selectedFile' = codeMaps
  /\ UNCHANGED <<pollVars, formVars, treeVars>>

\* ---- CodeAnalysis and RequirementAnalysis: the create forms ----
\* the page a successful create navigates to
Target(view) == IF view = "CodeAnalysis" THEN "CodeMap" ELSE "AgentWorkflow"

\* the ids the backend has given to the resources created so far
Created(target) ==
  {timeouts[t].id : t \in {k \in DOMAIN timeouts : timeouts[k].target = target}}

\* setTimeout(() => navigate(...), 2000)
setTimeout(ts, view, inst, id) ==
  Append(ts, [view |-> view, inst |-> inst, target |-> Target(view), id |-> id,
              state |-> "set"])

CodeAnalysisMount ==
  /\ page = "none" /\ mounts < MaxMounts
  /\ page' = "CodeAnalysis" /\ params' = 0 /\ mounts' = mounts + 1
  /\ loading' = FALSE
  /\ UNCHANGED <<requirement, tasks, project, codeMaps, summary, projects,
                 stats, interval, timers, effects, rounds, selectedFile,
                 formVars, treeVars>>

\* onFinish of the form, which antd does not call while disabled={loading}
CodeAnalysisSubmit ==
  /\ page = "CodeAnalysis" /\ ~loading
  /\ Len(creates) < MaxId
  /\ loading' = TRUE
  /\ creates' = Append(creates, [view |-> "CodeAnalysis", inst |-> mounts,
                                 state |-> "pending"])
  /\ UNCHANGED <<page, params, mounts, requirement, tasks, project, codeMaps,
                 summary, projects, stats, interval, timers, effects, rounds,
                 selectedFile, requirements, submitting, timeouts, treeVars>>

\* the rest of handleSubmit after await projectService.create(values)
CodeAnalysisSettle(c, out, id) ==
  /\ c \in DOMAIN creates /\ creates[c].view = "CodeAnalysis"
  /\ creates[c].state = "pending"
  /\ id \notin Created("CodeMap")
  /\ creates' = [creates EXCEPT ![c].state = out]
  /\ timeouts' = IF out = "ok"
                   THEN setTimeout(timeouts, "CodeAnalysis", creates[c].inst, id)
                   ELSE timeouts
  /\ loading' = IF Alive(creates[c]) THEN FALSE ELSE loading
  /\ UNCHANGED <<page, params, mounts, requirement, tasks, project, codeMaps,
                 summary, projects, stats, interval, timers, effects, rounds,
                 selectedFile, requirements, submitting, treeVars>>

RequirementAnalysisMount(id) ==
  /\ page = "none" /\ mounts < MaxMounts /\ Len(rounds) < MaxRounds
  /\ page' = "RequirementAnalysis" /\ params' = id /\ mounts' = mounts + 1
  /\ requirements' = NoData /\ submitting' = FALSE
  /\ loading' = TRUE
  /\ rounds' = loadData(rounds, "RequirementAnalysis", mounts + 1, id, "initial", 0)
  /\ UNCHANGED <<requirement, tasks, project, codeMaps, summary, projects,
                 stats, interval, timers, effects, selectedFile, creates,
                 timeouts, treeVars>>

RequirementAnalysisParamChange(id) ==
  /\ page = "RequirementAnalysis" /\ id # params
  /\ Len(rounds) < MaxRounds
  /\ params' = id
  /\ loading' = TRUE
  /\ rounds' = loadData(rounds, "RequirementAnalysis", mounts, id, "initial", 0)
  /\ UNCHANGED <<page, mounts, requirement, tasks, project, codeMaps, summary,
                 projects, stats, interval, timers, effects, selectedFile,
                 formVars, treeVars>>

\* setProject and setRequirements of one round are kept in one variable,
\* with the status of the project
RequirementAnalysisSettle(r, outs, st) ==
  /\ r \in DOMAIN rounds /\ rounds[r].view = "RequirementAnalysis"
  /\ rounds[r].state = "pending"
  /\ LET rd == rounds[r]
     IN /\ rounds' = [rounds EXCEPT ![r].state = PromiseAll(outs)]
        /\ requirements' = IF PromiseAll(outs) = "fulfilled" /\ Alive(rd)
                             THEN [round |-> r, id |-> rd.id, status |-> st]
                             ELSE requirements
        /\ loading' = IF Alive(rd) THEN FALSE ELSE loading
  /\ UNCHANGED <<page, params, mounts, requirement, tasks, project, codeMaps,
                 summary, projects, stats, interval, timers, effects,
                 selectedFile, submitting, creates, timeouts, treeVars>>

\* onFinish of the form, rendered when the page is not loading and not
\* called while disabled={submitting}
RequirementAnalysisSubmit ==
  /\ page = "RequirementAnalysis" /\ ~loading /\ ~submitting
  /\ Len(creates) < MaxId
  /\ submitting' = TRUE
  /\ creates' = Append(creates, [view |-> "RequirementAnalysis", inst |-> mounts,
                                 state |-> "pending"])
  /\ UNCHANGED <<pollVars, selectedFile, requirements, timeouts, treeVars>>

\* the rest of handleSubmit after await requirementService.create(...)
RequirementAnalysisCreated(c, out, id) ==
  /\ c \in DOMAIN creates /\ creates[c].view = "RequirementAnalysis"
  /\ creates[c].state = "pending"
  /\ id \notin Created("AgentWorkflow")
  /\ creates' = [creates EXCEPT ![c].state = out]
  /\ timeouts' = IF out = "ok"
                   THEN setTimeout(timeouts, "RequirementAnalysis", creates[c].inst, id)
                   ELSE timeouts
  /\ submitting' = IF Alive(creates[c]) THEN FALSE ELSE submitting
  /\ UNCHANGED <<pollVars, selectedFile, requirements, treeVars>>

\* the callback of a navigation timer: navigate(`/code-map/${id}`) or
\* navigate(`/agents/${id}`).  <Routes> keeps the page when it already shows
\* the target element (its effect re-runs if the parameter differs) and
\* otherwise unmounts the current page and mounts the target.
NavigateTimeout(t) ==
  /\ t \in DOMAIN timeouts /\ timeouts[t].state = "set"
  /\ LET view == timeouts[t].target
         id == timeouts[t].id
         stays == (page = view)
     IN /\ timeouts' = [timeouts EXCEPT ![t].state = "fired"]
        /\ IF stays /\ params = id
             THEN UNCHANGED <<pollVars, selectedFile, requirements, submitting>>
             ELSE /\ Len(rounds) < MaxRounds /\ Len(effects) < MaxEffects
                  /\ stays \/ mounts < MaxMounts
                  /\ page' = view /\ params' = id
                  /\ mounts' = IF stays THEN mounts ELSE mounts + 1
                  /\ interval' = Len(effects) + 1
                  /\ effects' = Append(effects,
                        Closure(view, id, IF stays /\ view = "CodeMap"
                                            THEN project ELSE NoData))
                  /\ rounds' = loadData(rounds, view, mounts', id, "initial", interval')
                  /\ timers' = setInterval(IF interval # 0
                                             THEN clearInterval(timers, interval)
                                             ELSE timers, interval')
                  /\ loading' = IF stays /\ view = "AgentWorkflow" THEN loading ELSE TRUE
                  /\ IF stays
                       THEN UNCHANGED <<requirement, tasks, project, codeMaps,
                                        summary, projects, stats, selectedFile,
                                        requirements, submitting>>
                       ELSE /\ requirement' = NoData /\ tasks' = NoData
                            /\ project' = NoData /\ codeMaps' = NoData
                            /\ summary' = NoData
                            /\ projects' = NoProjects /\ stats' = NoStats
                            /\ selectedFile' = NoData
                            /\ requirements' = NoData /\ submitting' = FALSE
  /\ UNCHANGED <<creates, treeVars>>

\* ---- leaving a page: effect cleanup, component state is destroyed ----
Unmount ==
  /\ page # "none"
  /\ page' = "none" /\ params' = 0
  /\ timers' = IF interval # 0 THEN clearInterval(timers, interval) ELSE timers
  /\ interval' = 0
  /\ requirement' = NoData /\ tasks' = NoData
  /\ project' = NoData /\ codeMaps' = NoData /\ summary' = NoData
  /\ projects' = NoProjects /\ stats' = NoStats
  /\ loading' = FALSE
  /\ selectedFile' = NoData
  /\ requirements' = NoData /\ submitting' = FALSE
  /\ UNCHANGED <<mounts, effects, rounds, creates, timeouts, treeVars>>

\* ---- CodeMap.buildTreeData ----
\* A file_path is a string, modelled as the sequence of its pieces: the
\* separator, the letters a and b, the digit 1, and the word constructor
\* taken as one piece.  A record cm of codeMaps is identified by its
\* file_path.
Chars == {"a", "b", "/", "1", "constructor"}

RECURSIVE StringsUpTo(_)
StringsUpTo(n) ==
  IF n = 0 THEN {<<>>}
  ELSE LET shorter == StringsUpTo(n - 1)
       IN shorter \cup {Append(p, c) : p \in {q \in shorter : Len(q) = n - 1}, c \in Chars}

Paths == StringsUpTo(MaxPathLen)
Records == [file_path : Paths]
Null == [file_path |-> <<"null">>]

RECURSIVE SeqsUpTo(_, _)
SeqsUpTo(S, n) ==
  IF n = 0 THEN {<<>>}
  ELSE LET shorter == SeqsUpTo(S, n - 1)
       IN shorter \cup {Append(q, x) : q \in {t \in shorter : Len(t) = n - 1}, x \in S}

\* String.prototype.split('/'): the pieces between the separators, empty
\* pieces included ("" gives [""], "a/" gives ["a", ""])
RECURSIVE split(_)
split(str) ==
  IF \A i \in DOMAIN str : str[i] # "/" THEN <<str>>
  ELSE LET i == CHOOSE j \in DOMAIN str :
                  str[j] = "/" /\ \A m \in 1 .. j - 1 : str[m] # "/"
       IN <<SubSeq(str, 1, i - 1)>> \o split(SubSeq(str, i + 1, Len(str)))

Digits == <<"0", "1", "2", "3", "4", "5", "6", "7", "8", "9">>

\* the decimal digits of idx, as string concatenation appends them
RECURSIVE Decimal(_)
Decimal(n) ==
  IF n < 10 THEN <<Digits[n + 1]>>
  ELSE Decimal(n \div 10) \o <<Digits[(n % 10) + 1]>>

\* The nested object `tree` is modelled by the sequence of its nodes in
\* creation order, each with the segments that lead to it: current[part] is
\* the node whose path is the prefix walked so far.
HasNode(tree, prefix) == \E n \in DOMAIN tree : tree[n].path = prefix

\* `tree` and every `children` are object literals: current[part] also finds
\* the properties inherited from Object.prototype (constructor, toString,
\* valueOf, hasOwnProperty, __proto__, ...), all of them truthy; the model
\* has the name constructor
ObjectPrototype == {<<"constructor">>}

\* for an inherited property no node is created and current becomes
\* current[part].children, which is undefined: if the path has a further
\* segment, current[part] of the next iteration throws a TypeError
Throws(cms) ==
  \E i \in DOMAIN cms :
    LET parts == split(cms[i].file_path)
    IN \E j \in 1 .. Len(parts) - 1 : parts[j] \in ObjectPrototype

\* body of parts.forEach((part, idx) => ...), idx counted from 0
AddPart(tree, cm, parts, idx) ==
  LET prefix == SubSeq(parts, 1, idx + 1)
      last == (idx = Len(parts) - 1)
  IN IF HasNode(tree, prefix) \/ parts[idx + 1] \in ObjectPrototype THEN tree
     ELSE Append(tree, [path |-> prefix,
                        key |-> cm.file_path \o Decimal(idx),
                        title |-> parts[idx + 1],
                        icon |-> IF last THEN "FileOutlined" ELSE "FolderOutlined",
                        isFile |-> last,
                        data |-> IF last THEN cm ELSE Null])

RECURSIVE AddParts(_, _, _, _)
AddParts(tree, cm, parts, idx) ==
  IF idx >= Len(parts) THEN tree
  ELSE AddParts(AddPart(tree, cm, parts, idx), cm, parts, idx + 1)

\* codeMaps.forEach(cm => ...)
RECURSIVE AddRecords(_, _, _)
AddRecords(tree, cms, i) ==
  IF i > Len(cms) THEN tree
  ELSE AddRecords(AddParts(tree, cms[i], split(cms[i].file_path), 0), cms, i + 1)

\* a property name that is an array index ("1", "11", ...): in the model a
\* non-empty run of the digit 1
IsIndex(part) == part # <<>> /\ \A i \in DOMAIN part : part[i] = "1"

RECURSIVE IndexValue(_)
IndexValue(part) ==
  IF part = <<>> THEN 0 ELSE 10 * IndexValue(SubSeq(part, 1, Len(part) - 1)) + 1

RECURSIVE Ascending(_)
Ascending(items) ==
  IF items = <<>> THEN <<>>
  ELSE LET m == CHOOSE i \in DOMAIN items :
                  \A j \in DOMAIN items :
                    IndexValue(items[i].title) <= IndexValue(items[j].title)
       IN <<items[m]>> \o Ascending(SubSeq(items, 1, m - 1)
                                      \o SubSeq(items, m + 1, Len(items)))

\* Object.values(obj) of the children object found under prefix: the
\* properties whose names are array indices in ascending numeric order, then
\* the other properties in the order of their creation
Children(tree, prefix) ==
  LET IsChild(n) == /\ Len(n.path) = Len(prefix) + 1
                    /\ SubSeq(n.path, 1, Len(prefix)) = prefix
      Indexed(n) == IsIndex(n.title)
      Named(n) == ~IsIndex(n.title)
      items == SelectSeq(tree, IsChild)
  IN Ascending(SelectSeq(items, Indexed)) \o SelectSeq(items, Named)

\* children: undefined is modelled by the empty sequence, which
\* convertToArray never returns for an object that has keys
RECURSIVE convertToArray(_, _)
convertToArray(tree, prefix) ==
  LET items == Children(tree, prefix)
  IN [i \in 1 .. Len(items) |->
        [key |-> items[i].key, title |-> items[i].title, icon |-> items[i].icon,
         isFile |-> items[i].isFile, data |-> items[i].data,
         children |-> convertToArray(tree, items[i].path)]]

buildTreeData(cms) == convertToArray(AddRecords(<<>>, cms, 1), <<>>)

TreeInit ==
  /\ page = "none" /\ params = 0 /\ mounts = 0
  /\ requirement = NoData /\ tasks = NoData
  /\ project = NoData /\ codeMaps = NoData /\ summary = NoData
  /\ projects = NoProjects /\ stats = NoStats
  /\ loading = FALSE
  /\ interval = 0 /\ timers = {} /\ effects = <<>> /\ rounds = <<>>
  /\ selectedFile = NoData
  /\ requirements = NoData
  /\ submitting = FALSE /\ creates = <<>> /\ timeouts = <<>>
  /\ input \in SeqsUpTo(Records, MaxRecords)
  /\ treeData = <<>> /\ built = FALSE
  /\ thrown = FALSE /\ renders = 0

\* the render evaluates treeData={buildTreeData()}; when the call throws,
\* <Tree> receives no new treeData
Render ==
  /\ ~built
  /\ thrown' = Throws(input)
  /\ treeData' = IF Throws(input) THEN treeData ELSE buildTreeData(input)
  /\ built' = TRUE
  /\ renders' = renders + 1
  /\ UNCHANGED <<input, pollVars, formVars, selectedFile>>

TreeNext == Render

TreeSpec == TreeInit /\ [][TreeNext]_vars

\* ---- deeply nested paths ----
\* the directory a/a/.../ of n levels
RECURSIVE Nested(_)
Nested(n) == IF n = 0 THEN <<>> ELSE <<"a", "/">> \o Nested(n - 1)

\* the files a and a1 in the directories of up to MaxDepth - 1 levels
DeepPaths ==
  {Nested(n) \o name : n \in 0 .. MaxDepth - 1, name \in {<<"a">>, <<"a", "1">>}}

DeepInit ==
  /\ page = "none" /\ params = 0 /\ mounts = 0
  /\ requirement = NoData /\ tasks = NoData
  /\ project = NoData /\ codeMaps = NoData /\ summary = NoData
  /\ projects = NoProjects /\ stats = NoStats
  /\ loading = FALSE
  /\ interval = 0 /\ timers = {} /\ effects = <<>> /\ rounds = <<>>
  /\ selectedFile = NoData
  /\ requirements = NoData
  /\ submitting = FALSE /\ creates = <<>> /\ timeouts = <<>>
  /\ input \in SeqsUpTo([file_path : DeepPaths], MaxRecords)
  /\ treeData = <<>> /\ built = FALSE
  /\ thrown = FALSE /\ renders = 0

DeepSpec == DeepInit /\ [][TreeNext]_vars

\* ---- re-rendering CodeMap with the same codeMaps ----
RenderInit ==
  /\ page = "none" /\ params = 0 /\ mounts = 0
  /\ requirement = NoData /\ tasks = NoData
  /\ project = NoData /\ codeMaps = NoData /\ summary = NoData
  /\ projects = NoProjects /\ stats = NoStats
  /\ loading = FALSE
  /\ interval = 0 /\ timers = {} /\ effects = <<>> /\ rounds = <<>>
  /\ selectedFile = NoData
  /\ requirements = NoData
  /\ submitting = FALSE /\ creates = <<>> /\ timeouts = <<>>
  /\ input \in SeqsUpTo([file_path : StringsUpTo(MaxRenderPathLen)],
                         MaxRenderRecords)
  /\ treeData = <<>> /\ built = FALSE
  /\ thrown = FALSE /\ renders = 0

Reversed(cms) == [i \in DOMAIN cms |-> cms[Len(cms) + 1 - i]]

\* faulty variant: buildTreeData reorders codeMaps in place before the walk
RerenderInPlace ==
  /\ built /\ renders < MaxRenders
  /\ input' = Reversed(input)
  /\ thrown' = Throws(input')
  /\ treeData' = IF Throws(input') THEN treeData ELSE buildTreeData(input')
  /\ renders' = renders + 1
  /\ UNCHANGED <<built, pollVars, formVars, selectedFile>>

\* a later render of the component (any state change) evaluates
\* buildTreeData() again on the codeMaps it already had
Rerender ==
  /\ built /\ renders < MaxRenders
  /\ thrown' = Throws(input)
  /\ treeData' = IF Throws(input) THEN treeData ELSE buildTreeData(input)
  /\ renders' = renders + 1
  /\ UNCHANGED <<input, built, pollVars, formVars, selectedFile>>

RenderNext == Render \/ Rerender

RenderSpec == RenderInit /\ [][RenderNext]_vars

\* ---- helpers of the tree properties ----
\* the nodes of a forest, each with its path from the roots
RECURSIVE NodesOf(_, _)
NodesOf(forest, prefix) ==
  UNION {LET here == Append(prefix, forest[i].title)
         IN {[path |-> here, isFile |-> forest[i].isFile, data |-> forest[i].data,
              nchildren |-> Len(forest[i].children)]}
            \cup NodesOf(forest[i].children, here)
         : i \in DOMAIN forest}

Permutation(cms, f) == [i \in DOMAIN cms |-> cms[f[i]]]
Reorderings(cms) ==
  {Permutation(cms, f) : f \in {g \in [DOMAIN cms -> DOMAIN cms] :
                                  \A i, j \in DOMAIN cms : g[i] = g[j] => i = j}}

WellFormed(cm) ==
  LET parts == split(cm.file_path) IN \A i \in DOMAIN parts : parts[i] # <<>>

PathA == <<"a">>
PathAB == <<"a", "/", "b">>

\* C9: for the records 'a/b' and 'a' in either order the forest is the
\* interior node 'a' (no file, no payload) with the single child 'b'; and for
\* every input of well-formed paths the classification and payload of every
\* node are the same for every reordering of the input.
C9_ConflictDeterminism ==
  built =>
    /\ {input[i].file_path : i \in DOMAIN input} = {PathA, PathAB} =>
         /\ Len(treeData) = 1 /\ treeData[1].title = <<"a">>
         /\ ~treeData[1].isFile /\ treeData[1].data = Null
         /\ Len(treeData[1].children) = 1
         /\ treeData[1].children[1].title = <<"b">>
    /\ (\A i \in DOMAIN input : WellFormed(input[i])) =>
         \A cms \in Reorderings(input) :
           NodesOf(buildTreeData(cms), <<>>) = NodesOf(treeData, <<>>)

\* C10: records with an empty path or an empty segment are skipped, the other
\* records are processed, and no node has the empty string as its title.
C10_MalformedSkipped ==
  built =>
    /\ \A n \in NodesOf(treeData, <<>>) : n.path[Len(n.path)] # <<>>
    /\ treeData = buildTreeData(SelectSeq(input, WellFormed))

IsPrefixOf(p, q) == Len(p) <= Len(q) /\ SubSeq(q, 1, Len(p)) = p

\* the non-empty prefixes of the segment sequences of the records
Prefixes(cms) ==
  UNION {{SubSeq(split(cms[i].file_path), 1, k) :
            k \in 1 .. Len(split(cms[i].file_path))} : i \in DOMAIN cms}

Distinct(cms) ==
  \A i, j \in DOMAIN cms : cms[i].file_path = cms[j].file_path => i = j

\* no record path is a directory prefix of another record path
ConflictFree(cms) ==
  \A i, j \in DOMAIN cms :
    i # j => ~IsPrefixOf(split(cms[i].file_path), split(cms[j].file_path))

RECURSIVE CountNodes(_)
CountNodes(forest) ==
  IF forest = <<>> THEN 0
  ELSE 1 + CountNodes(Head(forest).children) + CountNodes(Tail(forest))

RECURSIVE CountLeaves(_)
CountLeaves(forest) ==
  IF forest = <<>> THEN 0
  ELSE (IF Head(forest).isFile THEN 1 ELSE 0)
       + CountLeaves(Head(forest).children) + CountLeaves(Tail(forest))

\* the lists of siblings of a forest (the roots, and the children of every
\* node), each sibling given by its path
RECURSIVE SiblingLists(_, _)
SiblingLists(forest, prefix) ==
  {[i \in DOMAIN forest |-> Append(prefix, forest[i].title)]}
  \cup UNION {SiblingLists(forest[i].children, Append(prefix, forest[i].title))
              : i \in DOMAIN forest}

\* index of the first record of cms whose path runs through prefix p
FirstSeen(cms, p) ==
  CHOOSE i \in DOMAIN cms :
    /\ IsPrefixOf(p, split(cms[i].file_path))
    /\ \A j \in 1 .. i - 1 : ~IsPrefixOf(p, split(cms[j].file_path))

\* C11: for well-formed, pairwise distinct, conflict-free paths the forest has
\* exactly one node per non-empty path prefix of the input; the node of a
\* complete record path is a leaf carrying that record, every other node is
\* an interior node without payload.
C11_OneNodePerPrefix ==
  (/\ built
   /\ \A i \in DOMAIN input : WellFormed(input[i])
   /\ Distinct(input) /\ ConflictFree(input))
  => /\ ~thrown
     /\ {n.path : n \in NodesOf(treeData, <<>>)} = Prefixes(input)
     /\ CountNodes(treeData) = Cardinality(Prefixes(input))
     /\ \A n \in NodesOf(treeData, <<>>) :
          IF \E i \in DOMAIN input : split(input[i].file_path) = n.path
            THEN /\ n.isFile /\ n.nchildren = 0
                 /\ split(n.data.file_path) = n.path
            ELSE ~n.isFile /\ n.data = Null /\ n.nchildren > 0

\* C12: the number of isFile nodes of the returned forest equals the number
\* of well-formed records of the input, for any input.
C12_LeavesAccountForRecords ==
  (built /\ ~thrown)
  => CountLeaves(treeData) = Len(SelectSeq(input, WellFormed))

\* C13: every node of a returned forest is either a leaf (isFile, payload, no
\* children) or an interior node (not isFile, no payload, at least one child).
C13_LeafXorInterior ==
  (built /\ ~thrown)
  => \A n \in NodesOf(treeData, <<>>) :
       \/ (n.isFile /\ n.data # Null /\ n.nchildren = 0)
       \/ (~n.isFile /\ n.data = Null /\ n.nchildren > 0)

\* C15: the roots and the children of every node are emitted in the order in
\* which their segment names were first encountered in the input sequence,
\* whatever the names are.
C15_FirstEncounterOrder ==
  (built /\ ~thrown)
  => \A l \in SiblingLists(treeData, <<>>) :
       \A i, j \in DOMAIN l :
         i < j => FirstSeen(input, l[i]) < FirstSeen(input, l[j])

\* the keys of the nodes of a forest
RECURSIVE KeysOf(_)
KeysOf(forest) ==
  UNION {{forest[i].key} \cup KeysOf(forest[i].children) : i \in DOMAIN forest}

\* C22: for pairwise distinct paths the nodes of the returned forest have
\* pairwise distinct keys, at every depth.
C22_KeysDistinct ==
  (built /\ ~thrown /\ Distinct(input))
  => Cardinality(KeysOf(treeData)) = CountNodes(treeData)

CommittedViews == <<requirement, tasks, project, codeMaps, summary, projects, stats>>

\* the rounds issued by the effect run with handle h, on start or by its timer
PollRounds(h) ==
  {r \in DOMAIN rounds : rounds[r].eff = h /\ rounds[r].origin \in {"initial", "tick"}}

\* this step is a timer callback of handle h
Fires(h) == effects'[h].fired = effects[h].fired + 1

\* this step issues a round
Issues == Len(rounds') = Len(rounds) + 1

\* the round whose result this step commits to the mounted page (0: none)
Commits(r) ==
  \/ (requirement'.round = r /\ requirement.round # r)
  \/ (project'.round = r /\ project.round # r)

\* the round of the snapshot the mounted polling page shows (0: none)
Shown == IF page = "AgentWorkflow" THEN requirement.round ELSE project.round

\* C1: under one effect run the committed snapshot only ever moves to a round
\* issued later: the result of an earlier-issued round that resolves after a
\* later round of the same loop was committed is discarded.
C1_StaleResultDiscarded ==
  [][\A a, b \in DOMAIN rounds :
        (a < b /\ Shown = b /\ rounds[a].eff = interval /\ rounds[b].eff = interval)
        => ~Commits(a)]_vars

\* C2: a round that is in flight when the effect that issued it is torn down
\* (unmount or route-parameter change) is never committed afterwards.
C2_NoCommitAfterTeardown ==
  [][\A r \in DOMAIN rounds :
        (rounds[r].state = "pending" /\ rounds[r].eff # interval
           /\ rounds[r].view # "Dashboard")
        => ~Commits(r)]_vars

\* the status of the snapshot the mounted polling page shows
ShownStatus == IF page = "AgentWorkflow" THEN requirement.status ELSE project.status

\* the rounds of effect run h whose result has arrived in full
Fulfilled(h) == {r \in PollRounds(h) : rounds[r].state = "fulfilled"}

\* C3: once the first snapshot committed under a polling effect has a
\* terminal status, the timer of that effect issues no fetch round: the
\* immediate round stays the only one.
C3_GateSelfTermination ==
  [][\A h \in DOMAIN effects :
        (h = interval /\ Fulfilled(h) = {Shown} /\ ShownStatus \in Terminal)
        => ~(Issues /\ rounds'[Len(rounds')].origin = "tick"
                    /\ rounds'[Len(rounds')].eff = h)]_vars

\* C4: a CodeMap timer tick that finds the last committed project status
\* 'analyzing' issues a new fetch round.
C4_TickFetchesWhileAnalyzing ==
  [][\A h \in DOMAIN effects :
        (effects[h].view = "CodeMap" /\ Fires(h) /\ project.status = "analyzing")
        => Issues]_vars

\* C5: once the cleanup of an effect has run, its timer never fires again and
\* issues no further round.
C5_NoTickAfterStop ==
  [][\A h \in DOMAIN effects :
        h # interval =>
          /\ effects'[h].fired = effects[h].fired
          /\ ~(Issues /\ rounds'[Len(rounds')].origin = "tick"
                      /\ rounds'[Len(rounds')].eff = h)]_vars

C5_Witness ==
  \E h \in DOMAIN effects :
    /\ h # interval /\ effects[h].fired > 0
    /\ \E r \in DOMAIN rounds : rounds[r].eff = h /\ rounds[r].state = "pending"
    /\ interval \in DOMAIN effects /\ effects[interval].fired > 0

\* C6: in AgentWorkflow a failed round leaves the interval timer set, and
\* every tick of the timer issues a new round whatever failed before.
C6_FailureKeepsPolling ==
  [][/\ (page' = "AgentWorkflow"
          /\ \E r \in DOMAIN rounds' : rounds'[r].eff = interval'
                                       /\ rounds'[r].state = "rejected")
        => interval' \in timers'
     /\ \A h \in DOMAIN effects :
          (effects[h].view = "AgentWorkflow" /\ Fires(h))
          => (Issues /\ rounds'[Len(rounds')].eff = h)]_vars

C6_Witness ==
  /\ page = "AgentWorkflow"
  /\ \E r, q \in DOMAIN rounds :
       /\ r < q /\ rounds[r].eff = interval /\ rounds[r].state = "rejected"
       /\ rounds[q].eff = interval /\ rounds[q].origin = "tick"

\* C7: the parts of a page's snapshot always stem from one and the same
\* round, and a round in which a request failed changes none of them.
C7_SnapshotFullyFormed ==
  [][/\ requirement'.round = tasks'.round /\ requirement'.id = tasks'.id
     /\ project'.round = codeMaps'.round /\ project'.round = summary'.round
     /\ project'.id = codeMaps'.id /\ project'.id = summary'.id
     /\ projects'.round = stats'.round /\ stats'.total = Len(projects'.data)
     /\ (\E r \in DOMAIN rounds :
            rounds[r].state = "pending" /\ rounds'[r].state = "rejected")
        => UNCHANGED CommittedViews]_vars

C7_Witness ==
  \E r \in DOMAIN rounds :
    /\ rounds[r].state = "rejected" /\ page = rounds[r].view /\ mounts = rounds[r].inst
    /\ \/ (requirement.round # 0 /\ requirement.round < r)
       \/ (project.round # 0 /\ project.round < r)

\* C8: every effect run issues its immediate round when it starts, before any
\* round of its timer.
C8_ImmediateFetchOnStart ==
  \A h \in DOMAIN effects :
    \E r \in PollRounds(h) :
      /\ rounds[r].origin = "initial" /\ rounds[r].id = effects[h].id
      /\ \A q \in PollRounds(h) \ {r} : q > r /\ rounds[q].origin = "tick"

C8_Witness ==
  /\ Len(effects) = 2 /\ interval = 2 /\ effects[2].fired = 0
  /\ \E r \in PollRounds(2) : rounds[r].state = "pending" /\ rounds[r].id = params

\* C14: in every Dashboard snapshot the status buckets of stats add up to
\* stats.total, the number of projects: no project is left uncounted.
C14_AggregationComplete ==
  /\ stats.total = Len(projects.data)
  /\ stats.completed + stats.analyzing + stats.pending = stats.total

PollingPages == {"AgentWorkflow", "CodeMap"}

\* C18: a mounted polling page has at most one interval timer set, the one
\* of its live effect, and no timer is set while no polling page is mounted.
C18_AtMostOneTimer ==
  /\ Cardinality(timers) <= 1
  /\ \A h \in timers :
       h = interval /\ effects[h].view = page /\ effects[h].id = params
  /\ page \notin PollingPages => timers = {}

C18_Witness ==
  /\ page \in PollingPages /\ mounts = 2
  /\ Len(effects) = 2 /\ effects[1].fired > 0 /\ timers = {2}

\* C17: selectedFile is null or a record of the codeMaps snapshot that is
\* committed now (same round, same project): the detail pane never shows a
\* record of a superseded snapshot or of another project.
C17_SelectedFileCurrent ==
  selectedFile = NoData \/ selectedFile = codeMaps

\* the mounted create form accepts a submit
FormOpen ==
  \/ (page = "CodeAnalysis" /\ ~loading)
  \/ (page = "RequirementAnalysis" /\ ~loading /\ ~submitting)

\* C19: while a navigation scheduled by the mounted form is pending the form
\* accepts no submit; every scheduled navigation belongs to one successful
\* create and a failed create schedules none.
C19_FormDisabledUntilNavigation ==
  /\ \A t \in DOMAIN timeouts :
       (timeouts[t].state = "set" /\ Alive(timeouts[t])) => ~FormOpen
  /\ Len(timeouts) = Cardinality({c \in DOMAIN creates : creates[c].state = "ok"})

\* C20: the callback of a navigation timer changes the route only if the
\* page instance that scheduled it is still mounted.
C20_NavigationOnlyIfMounted ==
  [][\A t \in DOMAIN timeouts :
        (timeouts[t].state = "set" /\ timeouts'[t].state = "fired"
           /\ ~Alive(timeouts[t]))
        => (page' = page /\ params' = params)]_vars

\* the loadData rounds of the mounted page instance that have not settled
InFlight ==
  {r \in DOMAIN rounds : rounds[r].state = "pending" /\ Alive(rounds[r])}

\* C21: in CodeMap the loading flag is true exactly while a loadData round of
\* the page is in flight.
C21_LoadingIffInFlight ==
  page = "CodeMap" => (loading <=> InFlight # {})

Next ==
  \/ \E id \in Ids : AgentWorkflowMount(id)
  \/ \E id \in Ids : AgentWorkflowParamChange(id)
  \/ \E h \in DOMAIN effects : AgentWorkflowTick(h)
  \/ \E r \in DOMAIN rounds, outs \in Outcomes("AgentWorkflow") :
        \E st \in Carried(RequirementStatuses, outs) : AgentWorkflowSettle(r, outs, st)
  \/ \E id \in Ids : CodeMapMount(id)
  \/ \E id \in Ids : CodeMapParamChange(id)
  \/ \E h \in DOMAIN effects : CodeMapTick(h)
  \/ CodeMapRefresh
  \/ \E r \in DOMAIN rounds, outs \in Outcomes("CodeMap") :
        \E st \in Carried(ProjectStatuses, outs) : CodeMapSettle(r, outs, st)
  \/ DashboardMount
  \/ \E r \in DOMAIN rounds, outs \in Outcomes("Dashboard") :
        \E list \in Carried(ProjectLists, outs) : DashboardSettle(r, outs, list)
  \/ Unmount

Spec == Init /\ [][Next]_vars

\* the pages of Spec together with the create forms and the file selection
AppNext ==
  \/ Next
  \/ onSelect
  \/ CodeAnalysisMount
  \/ CodeAnalysisSubmit
  \/ \E c \in DOMAIN creates, out \in {"ok", "fail"}, id \in Ids :
        CodeAnalysisSettle(c, out, id)
  \/ \E id \in Ids : RequirementAnalysisMount(id)
  \/ \E id \in Ids : RequirementAnalysisParamChange(id)
  \/ \E r \in DOMAIN rounds, outs \in Outcomes("RequirementAnalysis") :
        \E st \in Carried(ProjectStatuses, outs) : RequirementAnalysisSettle(r, outs, st)
  \/ RequirementAnalysisSubmit
  \/ \E c \in DOMAIN creates, out \in {"ok", "fail"}, id \in Ids :
        RequirementAnalysisCreated(c, out, id)
  \/ \E t \in DOMAIN timeouts : NavigateTimeout(t)

AppSpec == Init /\ [][AppNext]_vars

====
